---- MODULE Spec2Model ----
(***************************************************************************)
(* A model of homu's merge-queue core (src/homu/main.py): the PR entity    *)
(* and its persistence, the command parser, the build dispatcher, the      *)
(* queue processor, the mergeability prober, the per-repo synchronizer     *)
(* and startup recovery.                                                   *)
(*                                                                         *)
(* Python strings that the code takes apart (comment words, SHAs, user     *)
(* names) are sequences of one-character strings; '' is << >>.  Strings    *)
(* that are only compared (status, builder names, urls) are TLA+ strings.  *)
(* None/True/False of a tri-valued field are "None"/"True"/"False".        *)
(***************************************************************************)
EXTENDS Integers, Sequences, FiniteSets, TLC

VARIABLES
    repo_cfgs,       \* repo label -> kind of its CI block (cfg.toml)
    states,          \* repo label -> (num -> PullReqState)
    db_pull,         \* table pull:      <<repo, num>> -> row
    db_build_res,    \* table build_res: <<repo, num, builder>> -> row
    db_mergeable,    \* table mergeable: <<repo, num>> -> "True" | "False"
    buildbot_slots,  \* buildbot_slots[0]
    mergeable_que,   \* the prober's work queue
    detached,        \* oid -> mergeable of a queued entity no longer in states
    sync_pc,         \* repo label -> position of its synchronize thread
    gh,              \* the hosting platform: heads, 'homu' statuses, titles
    counters,        \* merge commits made, objects made, events delivered
    last             \* the operation that ran last, its inputs and its effects

vars == <<repo_cfgs, states, db_pull, db_build_res, db_mergeable,
          buildbot_slots, mergeable_que, detached, sync_pc, gh, counters, last>>

----------------------------------------------------------------------------
(* Bounds of the model.                                                    *)

MaxMerges == 3      \* merge commits the platform makes in one run
MaxReplay == 1      \* comments of one PR a synchronize replays
MaxEvents == 3      \* comments, reports and pushes of one run of the scheduler
MaxStoreEvents == 3 \* comments, reports, pushes and restarts of one run of the store
MaxParserEvents == 2 \* comments, reports and pushes of one run of the parser
MaxRebuildEvents == 4 \* comments and reports of one run of the rebuilds

----------------------------------------------------------------------------
(* Strings as sequences of characters.                                     *)

HexDigits == <<"0","1","2","3","4","5","6","7","8","9","a","b","c","d","e","f">>
HexSet == {HexDigits[i] : i \in 1..Len(HexDigits)}
DecDigits == <<"0","1","2","3","4","5","6","7","8","9">>

Min(a, b) == IF a < b THEN a ELSE b

\* s[:n] and s[n:] of Python
Take(s, n) == SubSeq(s, 1, Min(n, Len(s)))
Drop(s, n) == SubSeq(s, n + 1, Len(s))
StartsWith(s, p) == Take(s, Len(p)) = p
\* sub in s
Contains(s, sub) ==
    \E i \in 0..Len(s) : i + Len(sub) <= Len(s) /\ SubSeq(s, i + 1, i + Len(sub)) = sub

\* The SHAs of the model: the i-th head of a PR and the i-th merge commit.
HeadSha(i) == <<"d","e","a","d", HexDigits[i + 1]>>
MergeSha(i) == <<"c","0","d","e", HexDigits[i + 1]>>

\* Logins.
Alice == <<"a","l">>
Carol == <<"c","a">>
Mallory == <<"m","a">>
my_username == <<"b","o","t">>
Mention == <<"@">> \o my_username

----------------------------------------------------------------------------
(* Configuration (cfg.toml): two repositories, each with one CI block.     *)

RepoOrder == <<"r1", "r2">>         \* cfg['repo'].items() order
Repos == {RepoOrder[i] : i \in 1..Len(RepoOrder)}
CiKinds == {"buildbot", "travis"}
Reviewers == {Alice}                \* repo_cfg['reviewers']
PullNums == {1, 2}                  \* the PR numbers of a repo
AllPulls == {<<r, n>> : r \in Repos, n \in PullNums}

\* repo_cfg['buildbot']['builders'] / ['try_builders']
BuildbotBuilders == {"b1", "b2"}
BuildbotTryBuilders == {"t1"}

Statuses == {"", "pending", "success", "failure", "error"}

STATUS_TO_PRIORITY(s) ==
    CASE s = "success" -> 0
      [] s = "pending" -> 1
      [] s = "approved" -> 2
      [] s = "" -> 3
      [] s = "error" -> 4
      [] s = "failure" -> 5
      [] OTHER -> -1

----------------------------------------------------------------------------
(* Functions as tables and dicts.                                          *)

Put(f, k, v) == [x \in (DOMAIN f) \cup {k} |-> IF x = k THEN v ELSE f[x]]
Del(f, K) == [x \in (DOMAIN f) \ K |-> f[x]]
Empty == [x \in {} |-> x]

----------------------------------------------------------------------------
(* The machine: the program's memory, its database and the platform, as    *)
(* one record the operations below transform.  fx are the effects of the   *)
(* operation in progress.                                                  *)

NoFx == [comments |-> <<>>, ci |-> <<>>, checks |-> <<>>, writes |-> 0,
         exc |-> FALSE, ret |-> "None", visited |-> <<>>, starts |-> <<>>]

Cur == [states |-> states, pull |-> db_pull, build_res |-> db_build_res,
        mergeable |-> db_mergeable, slot |-> buildbot_slots,
        que |-> mergeable_que, detached |-> detached, gh |-> gh,
        counters |-> counters, fx |-> NoFx]

Commit(m) ==
    /\ states' = m.states
    /\ db_pull' = m.pull
    /\ db_build_res' = m.build_res
    /\ db_mergeable' = m.mergeable
    /\ buildbot_slots' = m.slot
    /\ mergeable_que' = m.que
    /\ detached' = m.detached
    /\ gh' = m.gh
    /\ counters' = m.counters

St(m, r, n) == m.states[r][n]

\* PullReqState.add_comment; the platform sends the bot's own comment back
\* as an event, which matters for the approval acknowledgement (pushpin)
AddComment(m, r, n, kind, arg) ==
    [m EXCEPT !.fx.comments = Append(@, [repo |-> r, num |-> n, kind |-> kind, arg |-> arg]),
              !.gh.echo[<<r, n>>] = IF kind = "pushpin" THEN @ \cup {arg} ELSE @]

\* utils.github_create_status(repo, head_sha, state, '', desc, context)
CreateStatus(m, r, n, state, context) ==
    [m EXCEPT !.fx.checks = Append(@, [repo |-> r, num |-> n, state |-> state, context |-> context]),
              !.gh.status[<<r, n>>] = IF context = "homu" THEN state ELSE @]

----------------------------------------------------------------------------
(* PullReqState.                                                           *)

\* PullReqState.save: REPLACE INTO pull
RowOf(e) ==
    [status |-> e.status, merge_sha |-> e.merge_sha, title |-> e.title,
     body |-> e.body, head_sha |-> e.head_sha, head_ref |-> e.head_ref,
     base_ref |-> e.base_ref, assignee |-> e.assignee,
     approved_by |-> e.approved_by, priority |-> e.priority,
     try_ |-> e.try_, rollup |-> e.rollup]

save(m, r, n) ==
    [m EXCEPT !.pull = Put(@, <<r, n>>, RowOf(St(m, r, n))),
              !.fx.writes = @ + 1]

\* PullReqState.set_status: UPDATE pull SET status; SET merge_sha unless try_
set_status(m, r, n, status) ==
    LET k == <<r, n>>
        e == St(m, r, n)
        p1 == IF k \in DOMAIN m.pull THEN [m.pull EXCEPT ![k].status = status] ELSE m.pull
        p2 == IF ~e.try_ /\ k \in DOMAIN p1
              THEN [p1 EXCEPT ![k].merge_sha = e.merge_sha] ELSE p1
    IN [m EXCEPT !.states[r][n].status = status,
                 !.pull = p2,
                 !.fx.writes = @ + (IF e.try_ THEN 1 ELSE 2)]

\* PullReqState.get_status
get_status(e) ==
    IF e.status = "" /\ e.approved_by # <<>> /\ e.mergeable # "False"
    THEN "approved" ELSE e.status

\* set_mergeable that puts the PR on the prober's queue whatever que says
SetMergeableAlwaysQueues(m, r, n, mergeable, cause, que) ==
    LET k == <<r, n>> IN
    IF mergeable # "None"
    THEN [m EXCEPT !.states[r][n].mergeable = mergeable,
                   !.mergeable = Put(@, k, mergeable),
                   !.fx.writes = @ + 1]
    ELSE [m EXCEPT !.que = Append(@, [repo |-> r, num |-> n,
                                      oid |-> St(m, r, n).oid, cause |-> cause]),
                   !.mergeable = Del(@, {k}),
                   !.fx.writes = @ + 1]

\* PullReqState.set_mergeable
set_mergeable(m, r, n, mergeable, cause, que) ==
    LET k == <<r, n>> IN
    IF mergeable # "None"
    THEN [m EXCEPT !.states[r][n].mergeable = mergeable,
                   !.mergeable = Put(@, k, mergeable),
                   !.fx.writes = @ + 1]
    ELSE [m EXCEPT !.que = IF que
                           THEN Append(@, [repo |-> r, num |-> n,
                                           oid |-> St(m, r, n).oid, cause |-> cause])
                           ELSE @,
                   !.states[r][n].mergeable = IF que THEN @ ELSE "None",
                   !.mergeable = Del(@, {k}),
                   !.fx.writes = @ + 1]

\* init_build_res without its DELETE
InitBuildResKeepsRows(m, r, n, builders, use_db) ==
    [m EXCEPT !.states[r][n].build_res = [b \in builders |-> [res |-> "None", url |-> ""]]]

\* PullReqState.init_build_res
init_build_res(m, r, n, builders, use_db) ==
    LET fresh == [b \in builders |-> [res |-> "None", url |-> ""]] IN
    IF use_db
    THEN [m EXCEPT !.states[r][n].build_res = fresh,
                   !.build_res = Del(@, {k \in DOMAIN @ : k[1] = r /\ k[2] = n}),
                   !.fx.writes = @ + 1]
    ELSE [m EXCEPT !.states[r][n].build_res = fresh]

\* PullReqState.set_build_res; the caller sees an exception for an unknown builder
set_build_res(m, r, n, builder, res, url) ==
    IF builder \notin DOMAIN St(m, r, n).build_res
    THEN [m EXCEPT !.fx.exc = TRUE]
    ELSE [m EXCEPT !.states[r][n].build_res[builder] = [res |-> res, url |-> url],
                   !.build_res = Put(@, <<r, n, builder>>,
                                     [res |-> res, url |-> url,
                                      merge_sha |-> St(m, r, n).merge_sha]),
                   !.fx.writes = @ + 1]

\* head_advanced without its reset of merge_sha
HeadAdvancedKeepsMergeSha(m, r, n, head_sha, use_db) ==
    LET m1 == [m EXCEPT !.states[r][n].head_sha = head_sha,
                        !.states[r][n].approved_by = <<>>,
                        !.states[r][n].status = "",
                        !.states[r][n].build_res = Empty,
                        !.states[r][n].try_ = FALSE,
                        !.states[r][n].mergeable = "None"]
    IN IF use_db
       THEN init_build_res(set_mergeable(set_status(m1, r, n, ""), r, n, "None", "None", TRUE),
                           r, n, {}, TRUE)
       ELSE m1

\* PullReqState.head_advanced
head_advanced(m, r, n, head_sha, use_db) ==
    LET m1 == [m EXCEPT !.states[r][n].head_sha = head_sha,
                        !.states[r][n].approved_by = <<>>,
                        !.states[r][n].status = "",
                        !.states[r][n].merge_sha = <<>>,
                        !.states[r][n].build_res = Empty,
                        !.states[r][n].try_ = FALSE,
                        !.states[r][n].mergeable = "None"]
    IN IF use_db
       THEN init_build_res(set_mergeable(set_status(m1, r, n, ""), r, n, "None", "None", TRUE),
                           r, n, {}, TRUE)
       ELSE m1

\* PullReqState.__init__ with the class attributes' defaults; the caller
\* (synchronize, main) then fills title, body, head_ref, base_ref, assignee.
NewPullReqState(num, head_sha, status, oid) ==
    [num |-> num, head_sha |-> head_sha, status |-> status,
     approved_by |-> <<>>, merge_sha |-> <<>>, build_res |-> Empty,
     try_ |-> FALSE, mergeable |-> "None",
     priority |-> 0, rollup |-> FALSE, title |-> "", body |-> "",
     head_ref |-> "", base_ref |-> "", assignee |-> "", oid |-> oid]

\* sort_key with the priority not negated
SortKeyLowPriorityFirst(e) ==
    << STATUS_TO_PRIORITY(get_status(e)),
       IF e.mergeable = "False" THEN 1 ELSE 0,
       IF e.approved_by # <<>> THEN 0 ELSE 1,
       IF e.rollup THEN 1 ELSE 0,
       e.priority,
       e.num >>

\* PullReqState.sort_key and __lt__ (Python compares lists lexicographically)
sort_key(e) ==
    << STATUS_TO_PRIORITY(get_status(e)),
       IF e.mergeable = "False" THEN 1 ELSE 0,
       IF e.approved_by # <<>> THEN 0 ELSE 1,
       IF e.rollup THEN 1 ELSE 0,
       0 - e.priority,
       e.num >>

RECURSIVE ListLt(_, _)
ListLt(a, b) ==
    IF a = <<>> THEN b # <<>>
    ELSE IF b = <<>> THEN FALSE
    ELSE IF Head(a) # Head(b) THEN Head(a) < Head(b)
    ELSE ListLt(Tail(a), Tail(b))

lt(a, b) == ListLt(sort_key(a), sort_key(b))

----------------------------------------------------------------------------
(* The command parser.                                                     *)

\* sha_cmp without the test of the length
ShaCmpNoMinLength(short, full) == short = Take(full, Len(short))

\* sha_cmp that wants the whole SHA
ShaCmpWhole(short, full) == short = full

\* sha_or_blank that lets every token through
ShaOrBlankKeeps(sha) == sha

sha_cmp(short, full) == Len(short) >= 4 /\ short = Take(full, Len(short))

\* re.match(r'^[0-9a-f]+$', sha)
sha_or_blank(sha) ==
    IF sha # <<>> /\ \A i \in 1..Len(sha) : sha[i] \in HexSet THEN sha ELSE <<>>

\* int(s) of a word: an optional sign and decimal digits; ok = no ValueError
RECURSIVE DigitsVal(_, _)
DigitsVal(s, acc) ==
    IF s = <<>> THEN acc
    ELSE DigitsVal(Tail(s), 10 * acc +
                   (CHOOSE d \in 0..9 : DecDigits[d + 1] = Head(s)))

ParseInt(s) ==
    LET signed == s # <<>> /\ Head(s) \in {"+", "-"}
        digits == IF signed THEN Tail(s) ELSE s
        ok == digits # <<>> /\
              \A i \in 1..Len(digits) : \E d \in 1..10 : DecDigits[d] = digits[i]
    IN [ok |-> ok,
        val |-> IF ~ok THEN 0
                ELSE IF signed /\ Head(s) = "-" THEN 0 - DigitsVal(digits, 0)
                ELSE DigitsVal(digits, 0)]

\* words = the \S+ tokens of the lines of body that contain '@' + my_username
RECURSIVE MentionWords(_)
MentionWords(body) ==
    IF body = <<>> THEN <<>>
    ELSE (IF \E i \in 1..Len(Head(body)) : Contains(Head(body)[i], Mention)
          THEN Head(body) ELSE <<>>) \o MentionWords(Tail(body))

W_rplus == <<"r", "+">>
W_req == <<"r", "=">>
W_rminus == <<"r", "-">>
W_peq == <<"p", "=">>
W_retry == <<"r","e","t","r","y">>
W_try == <<"t","r","y">>
W_tryminus == <<"t","r","y","-">>
W_rollup == <<"r","o","l","l","u","p">>
W_rollupminus == <<"r","o","l","l","u","p","-">>
W_force == <<"f","o","r","c","e">>
W_clean == <<"c","l","e","a","n">>

\* buildbot_sess: the login POST, the block, then the logout GET.  The block
\* here is the one POST of 'force'; resp is the session-CI's answer to it
\* ("raise": the request raises), which ends the block before the logout.
ForceStop(m, r, n, resp) ==
    LET m1 == [m EXCEPT !.fx.ci = Append(Append(@, "login"), "stopselected")] IN
    IF resp = "raise"
    THEN [m1 EXCEPT !.fx.exc = TRUE]
    ELSE LET m2 == [m1 EXCEPT !.fx.ci = Append(@, "logout")]
             err == resp # "ok"
         IN IF err THEN AddComment(m2, r, n, "bomb", resp) ELSE m2

\* 'try' that flips try_ instead of setting it
TryToggles(m, r, n, word) ==
    save(init_build_res([m EXCEPT !.states[r][n].try_ = ~@,
                                  !.states[r][n].merge_sha = <<>>],
                        r, n, {}, TRUE), r, n)

\* the directives 'try' and 'try-'
Try(m, r, n, word) ==
    save(init_build_res([m EXCEPT !.states[r][n].try_ = (word = W_try),
                                  !.states[r][n].merge_sha = <<>>],
                        r, n, {}, TRUE), r, n)

\* One iteration of the loop of parse_commands over word i (1-based here).
\* c = [m, words, changed]
ParseWord(c, r, n, i, username, realtime, sha, kind, resp) ==
    LET m == c.m
        words == c.words
        word == words[i]
        e == St(m, r, n)
        blanked == [words EXCEPT ![i] = <<>>]
        found(m2) == [m |-> m2, words |-> blanked, changed |-> TRUE]
    IN
    IF word = W_rplus \/ StartsWith(word, W_req) THEN
        LET cur_sha == IF sha = <<>> /\ i + 1 <= Len(words)
                       THEN sha_or_blank(words[i + 1]) ELSE sha
            approver == IF StartsWith(word, W_req) THEN Drop(word, 2) ELSE username
        IN IF sha_cmp(cur_sha, e.head_sha)
           THEN found(save([m EXCEPT !.states[r][n].approved_by = approver], r, n))
           ELSE IF realtime /\ username # my_username
           THEN IF cur_sha # <<>>
                THEN found(AddComment(m, r, n, "question", cur_sha))
                ELSE found(AddComment(m, r, n, "pushpin",
                                      [approver |-> approver, sha |-> e.head_sha]))
           ELSE found(m)
    ELSE IF word = W_rminus THEN
        found(save([m EXCEPT !.states[r][n].approved_by = <<>>], r, n))
    ELSE IF StartsWith(word, W_peq) THEN
        LET p == ParseInt(Drop(word, 2)) IN
        found(save([m EXCEPT !.states[r][n].priority = IF p.ok THEN p.val ELSE @], r, n))
    ELSE IF word = W_retry /\ realtime THEN
        found(set_status(m, r, n, ""))
    ELSE IF word \in {W_try, W_tryminus} /\ realtime THEN
        found(Try(m, r, n, word))
    ELSE IF word \in {W_rollup, W_rollupminus} THEN
        found(save([m EXCEPT !.states[r][n].rollup = (word = W_rollup)], r, n))
    ELSE IF word = W_force /\ realtime THEN
        IF kind # "buildbot"
        THEN [m |-> [m EXCEPT !.fx.exc = TRUE], words |-> words, changed |-> c.changed]
        ELSE LET m2 == ForceStop(m, r, n, resp) IN
             IF m2.fx.exc THEN [m |-> m2, words |-> words, changed |-> c.changed]
             ELSE found(m2)
    ELSE IF word = W_clean /\ realtime THEN
        found(save(init_build_res([m EXCEPT !.states[r][n].merge_sha = <<>>],
                                  r, n, {}, TRUE), r, n))
    ELSE c

RECURSIVE ParseLoop(_, _, _, _, _, _, _, _, _)
ParseLoop(c, r, n, i, username, realtime, sha, kind, resp) ==
    IF i = 0 \/ c.m.fx.exc THEN c
    ELSE ParseLoop(ParseWord(c, r, n, i, username, realtime, sha, kind, resp),
                   r, n, i - 1, username, realtime, sha, kind, resp)

\* parse_commands that skips the test of the author
ParseCommandsAnyAuthor(m, r, n, body, username, realtime, sha, kind, resp) ==
    LET words == MentionWords(body)
        c == ParseLoop([m |-> m, words |-> words, changed |-> FALSE],
                       r, n, Len(words), username, realtime, sha, kind, resp)
    IN IF c.m.fx.exc THEN c.m
       ELSE [c.m EXCEPT !.fx.ret = IF c.changed THEN "True" ELSE "False"]

\* parse_commands(body, username, repo_cfg, state, my_username, realtime, sha);
\* kind is the CI block of repo_cfg, resp the session-CI's answer to 'force'.
\* The return value is left in fx.ret.
parse_commands(m, r, n, body, username, realtime, sha, kind, resp) ==
    IF username \notin Reviewers /\ username # my_username
    THEN [m EXCEPT !.fx.ret = "False"]
    ELSE LET words == MentionWords(body)
             c == ParseLoop([m |-> m, words |-> words, changed |-> FALSE],
                            r, n, Len(words), username, realtime, sha, kind, resp)
         IN IF c.m.fx.exc THEN c.m
            ELSE [c.m EXCEPT !.fx.ret = IF c.changed THEN "True" ELSE "False"]

----------------------------------------------------------------------------
(* The build dispatcher.  out is what the platform and the session-CI      *)
(* answer while one PR is dispatched:                                      *)
(*   "ok"           every request succeeds                                 *)
(*   "conflict"     the merge request answers 409                          *)
(*   "raise"        the first platform request raises                      *)
(*   "stale_base"   the scratch merge's parents lack the base's head       *)
(*   "rebuild_err"  the rebuild POST is answered with an error page        *)
(*   "rebuild_raise" the rebuild POST raises                               *)

Outcomes == {"ok", "conflict", "raise", "stale_base", "rebuild_err", "rebuild_raise"}

Raise(m) == [m EXCEPT !.fx.exc = TRUE]
Return(m, v) == [m EXCEPT !.fx.ret = v]

\* the builders start_build picks from the repo's CI block
BuildersOf(kind, try_) ==
    IF kind = "buildbot"
    THEN (IF try_ THEN BuildbotTryBuilders ELSE BuildbotBuilders)
    ELSE {kind}

\* PullReqState.refresh
refresh(m, r, n) ==
    [m EXCEPT !.states[r][n].title = m.gh.title[<<r, n>>],
              !.states[r][n].body = m.gh.body[<<r, n>>]]

\* create_merge whose 409 path forgets state.set_status('error')
CreateMergeKeepsStatus(m, r, n, out) ==
    IF out = "raise" THEN Raise(m)
    ELSE IF out = "conflict"
    THEN Return(AddComment(CreateStatus(refresh(m, r, n), r, n, "error", "homu"),
                           r, n, "lock", "Merge conflict"), "None")
    ELSE Return([refresh(m, r, n) EXCEPT !.counters.merges = @ + 1], "commit")

\* create_merge: fx.ret = "None" for the 409 path, else the merge commit is
\* MergeSha(counters.merges) of the machine returned
create_merge(m, r, n, out) ==
    IF out = "raise" THEN Raise(m)
    ELSE LET m1 == refresh(m, r, n) IN
         IF out = "conflict"
         THEN Return(AddComment(CreateStatus(set_status(m1, r, n, "error"),
                                             r, n, "error", "homu"),
                                r, n, "lock", "Merge conflict"), "None")
         ELSE Return([m1 EXCEPT !.counters.merges = @ + 1], "commit")

\* start_build returns v for the PR n of r; fx.starts keeps what each call
\* of start_build returned
Returns(m, r, n, v) ==
    [Return(m, v) EXCEPT !.fx.starts = Append(@, [repo |-> r, num |-> n, ret |-> v])]

start_build(m, r, n, kind, out) ==
    IF m.slot # <<>> THEN Returns(m, r, n, "True")
    ELSE IF St(m, r, n).head_sha # m.gh.head[<<r, n>>] THEN Raise(m)
    ELSE LET builders == BuildersOf(kind, St(m, r, n).try_)
             \* state.merge_sha = merge_commit.sha; state.save()
             Saved(m2) == save([m2 EXCEPT !.states[r][n].merge_sha =
                                              MergeSha(m2.counters.merges)], r, n)
             Slotted(m3) == IF kind = "buildbot"
                            THEN [m3 EXCEPT !.slot = St(m3, r, n).merge_sha] ELSE m3
             Pending(m4) == CreateStatus(set_status(m4, r, n, "pending"),
                                         r, n, "pending", "homu")
             Told(m5) == AddComment(m5, r, n, "hourglass",
                                    IF St(m5, r, n).try_ THEN "Trying" ELSE "Testing")
             \* m1 is what create_merge leaves
             Merged(m1) ==
                 IF m1.fx.exc THEN m1
                 ELSE IF m1.fx.ret = "None" THEN Returns(m1, r, n, "False")
                 ELSE Returns(Told(Pending(Slotted(Saved(
                          init_build_res(m1, r, n, builders, TRUE))))), r, n, "True")
         IN Merged(create_merge(m, r, n, out))

start_rebuild(m, r, n, kind, out) ==
    LET e == St(m, r, n)
        res == e.build_res
        builders == {b \in DOMAIN res : res[b].res # "True"}
        succ_builders == {b \in DOMAIN res : res[b].res = "True"}
    IN
    IF kind # "buildbot" \/ DOMAIN res = {} THEN Return(m, "False")
    ELSE IF \E b \in DOMAIN res : res[b].url = "" THEN Return(m, "False")
    ELSE IF builders = {} \/ succ_builders = {} THEN Return(m, "False")
    ELSE IF out = "raise" THEN Raise(m)
    ELSE IF out \in {"stale_base", "conflict"} THEN Return(m, "False")
    ELSE LET m1 == [m EXCEPT !.fx.ci = Append(Append(@, "login"), "rebuild")] IN
         IF out = "rebuild_raise" THEN Raise(m1)
         ELSE LET m2 == [m1 EXCEPT !.fx.ci = Append(@, "logout")] IN
              IF out = "rebuild_err"
              THEN Return(AddComment(m2, r, n, "bomb", "rebuild"), "False")
              ELSE Return(AddComment(CreateStatus(set_status(m2, r, n, "pending"),
                                                  r, n, "pending", "homu"),
                                     r, n, "zap", "rebuild"), "True")

\* start_build_or_rebuild that gives up when nothing can be rebuilt
StartRebuildOnly(m, r, n, kind, out) == start_rebuild(m, r, n, kind, out)

start_build_or_rebuild(m, r, n, kind, out) ==
    LET Rebuilt(m1) ==
            IF m1.fx.exc \/ m1.fx.ret = "True" THEN m1
            ELSE start_build(m1, r, n, kind,
                             IF out \in {"ok", "conflict", "raise"} THEN out ELSE "ok")
    IN Rebuilt(start_rebuild(m, r, n, kind, out))

----------------------------------------------------------------------------
(* The queue processor.                                                    *)

\* sorted(states[repo_label].values()): the PR numbers in ascending __lt__
RECURSIVE SortedNums(_, _)
SortedNums(sts, nums) ==
    IF nums = {} THEN <<>>
    ELSE LET first == CHOOSE n \in nums : \A o \in nums \ {n} : lt(sts[n], sts[o])
         IN <<first>> \o SortedNums(sts, nums \ {first})

\* the PR numbers in ascending order
SortedByNum(sts, nums) ==
    IF nums = {} THEN <<>>
    ELSE LET RECURSIVE Asc(_)
             Asc(S) == IF S = {} THEN <<>>
                       ELSE LET first == CHOOSE n \in S : \A o \in S : n <= o
                            IN <<first>> \o Asc(S \ {first})
         IN Asc(nums)

repo_states(sts, nums) == SortedNums(sts, nums)

Visit(m, r, n, pass) == [m EXCEPT !.fx.visited = Append(@, <<r, n, pass>>)]

\* The first loop over repo_states, from position i.  The result's fx.ret is
\* "return" when process_queue returns from inside the loop.
RECURSIVE Pass1(_, _, _, _, _, _)
Pass1(m, r, order, i, kind, env) ==
    IF i > Len(order) \/ m.fx.exc THEN m
    ELSE LET n == order[i]
             e == St(m, r, n)
             v == Visit(m, r, n, 1)
             out == env[<<r, n>>]
             \* m1 is what the dispatch of the PR leaves
             Dispatched(m1) ==
                 IF m1.fx.exc THEN m1
                 ELSE IF m1.fx.ret = "True" THEN Return(m1, "return")
                 ELSE Pass1(m1, r, order, i + 1, kind, env)
         IN IF e.status = "pending" /\ ~e.try_ THEN v
            ELSE IF e.status = "" /\ e.approved_by # <<>>
            THEN Dispatched(start_build_or_rebuild(v, r, n, kind, out))
            ELSE IF e.status = "success" /\ e.try_ /\ e.approved_by # <<>>
            THEN Dispatched(start_build(
                     save([v EXCEPT !.states[r][n].try_ = FALSE], r, n), r, n, kind,
                     IF out \in {"ok", "conflict", "raise"} THEN out ELSE "ok"))
            ELSE Pass1(v, r, order, i + 1, kind, env)

RECURSIVE Pass2(_, _, _, _, _, _)
Pass2(m, r, order, i, kind, env) ==
    IF i > Len(order) \/ m.fx.exc THEN m
    ELSE LET n == order[i]
             e == St(m, r, n)
             v == Visit(m, r, n, 2)
             out == env[<<r, n>>]
             Dispatched(m1) ==
                 IF m1.fx.exc THEN m1
                 ELSE IF m1.fx.ret = "True" THEN Return(m1, "return")
                 ELSE Pass2(m1, r, order, i + 1, kind, env)
         IN IF e.status = "" /\ e.try_
            THEN Dispatched(start_build(
                     v, r, n, kind,
                     IF out \in {"ok", "conflict", "raise"} THEN out ELSE "ok"))
            ELSE Pass2(v, r, order, i + 1, kind, env)

\* process_queue: the repos in repos.items() order; cfgs is repo_cfgs
RECURSIVE process_queue(_, _, _, _)
process_queue(m, j, cfgs, env) ==
    IF j > Len(RepoOrder) \/ m.fx.exc THEN m
    ELSE LET r == RepoOrder[j]
             order == repo_states(m.states[r], DOMAIN m.states[r])
             \* m2 is what the second loop leaves, m1 what the first leaves
             Second(m2) ==
                 IF m2.fx.exc \/ m2.fx.ret = "return" THEN m2
                 ELSE process_queue(Return(m2, "None"), j + 1, cfgs, env)
             First(m1) ==
                 IF m1.fx.exc \/ m1.fx.ret = "return" THEN m1
                 ELSE Second(Pass2(Return(m1, "None"), r, order, 1, cfgs[r], env))
         IN First(Pass1(Return(m, "None"), r, order, 1, cfgs[r], env))

----------------------------------------------------------------------------
(* The mergeability prober: one iteration of fetch_mergeability's loop on  *)
(* the item at the head of the queue.  ans1 is what the platform's PR      *)
(* object says of mergeable ("raise": the request raises); ans2 is what    *)
(* the platform would answer if asked again after the sleep.               *)

Queued(que, oid) == \E i \in 1..Len(que) : que[i].oid = oid

\* the value the loop ends up storing: the PR object fetched once is read twice
Probed(ans1, ans2) == ans1

fetch_mergeability(m, ans1, ans2) ==
    LET item == Head(m.que)
        r == item.repo
        n == item.num
        rest == [m EXCEPT !.que = Tail(@)]
        live == n \in DOMAIN m.states[r] /\ m.states[r][n].oid = item.oid
        old == IF live THEN St(m, r, n).mergeable ELSE m.detached[item.oid]
        mergeable == Probed(ans1, ans2)
        k == <<r, n>>
    IN IF ans1 = "raise" THEN rest
       ELSE LET m1 == IF old = "True" /\ mergeable = "False"
                      THEN AddComment(rest, r, n, "x", item.cause) ELSE rest
            IN IF live THEN set_mergeable(m1, r, n, mergeable, "None", FALSE)
               ELSE [m1 EXCEPT !.detached = Put(@, item.oid, mergeable),
                               !.mergeable = IF mergeable = "None" THEN Del(@, {k})
                                             ELSE Put(@, k, mergeable),
                               !.fx.writes = @ + 1]

\* entities nobody can reach any more are forgotten
Collect(m) == [m EXCEPT !.detached = Del(@, {o \in DOMAIN @ : ~Queued(m.que, o)})]

----------------------------------------------------------------------------
(* The synchronizer of one repository, in three kinds of steps: the purge, *)
(* one open PR, the end.                                                   *)

\* the entities of states[r] the prober's queue still refers to
DetachedAfter(m, r) ==
    LET gone == {n \in DOMAIN m.states[r] : Queued(m.que, m.states[r][n].oid)}
        of(o) == CHOOSE n \in gone : m.states[r][n].oid = o
    IN [o \in (DOMAIN m.detached) \cup {m.states[r][n].oid : n \in gone} |->
          IF o \in DOMAIN m.detached THEN m.detached[o]
          ELSE m.states[r][of(o)].mergeable]

\* the DELETEs of the three tables and states[repo_label] = {}
sync_purge(m, r) ==
    [m EXCEPT !.pull = Del(@, {k \in DOMAIN @ : k[1] = r}),
              !.build_res = Del(@, {k \in DOMAIN @ : k[1] = r}),
              !.mergeable = Del(@, {k \in DOMAIN @ : k[1] = r}),
              !.fx.writes = @ + 3,
              !.detached = DetachedAfter(m, r),
              !.states[r] = Empty]

\* the comments of one PR replayed: the review comments made on the head
\* commit (sha bound to it), then the issue comments (sha unbound)
RECURSIVE Replay(_, _, _, _, _, _)
Replay(m, r, n, comments, review, kind) ==
    IF comments = <<>> THEN m
    ELSE LET c == Head(comments)
             m1 == IF c.review = review
                   THEN parse_commands(m, r, n, c.body, c.user, FALSE,
                                       IF review THEN St(m, r, n).head_sha ELSE <<>>,
                                       kind, "ok")
                   ELSE m
         IN Replay(m1, r, n, Tail(comments), review, kind)

\* the body of the loop over repo.iter_pulls for the open PR n
sync_pull(m, r, n, comments, kind) ==
    LET k == <<r, n>>
        status == IF k \in DOMAIN m.pull THEN m.pull[k].status ELSE m.gh.status[k]
        fresh == [NewPullReqState(n, m.gh.head[k], status, m.counters.oids)
                    EXCEPT !.title = m.gh.title[k], !.body = m.gh.body[k],
                           !.head_ref = "head", !.base_ref = "base"]
        m0 == [m EXCEPT !.states[r] = Put(@, n, fresh), !.counters.oids = @ + 1]
        m1 == set_mergeable(m0, r, n, "None", "None", TRUE)
        m2 == Replay(m1, r, n, comments, TRUE, kind)
        m3 == Replay(m2, r, n, comments, FALSE, kind)
    IN Return(save(m3, r, n), "None")

RECURSIVE AscSeq(_)
AscSeq(S) == IF S = {} THEN <<>>
             ELSE LET first == CHOOSE n \in S : \A o \in S : n <= o
                  IN <<first>> \o AscSeq(S \ {first})

RECURSIVE SyncPulls(_, _, _, _, _)
SyncPulls(m, r, nums, found, kind) ==
    IF nums = <<>> THEN m
    ELSE LET n == Head(nums)
             m1 == IF found[n].ignore THEN m
                   ELSE sync_pull(m, r, n, found[n].comments, kind)
         IN SyncPulls(m1, r, Tail(nums), found, kind)

\* synchronize: found is what repo.iter_pulls gives for each open PR
synchronize(m, r, found, kind) ==
    Return(SyncPulls(sync_purge(m, r), r, AscSeq(DOMAIN found), found, kind), "None")

----------------------------------------------------------------------------
(* Startup recovery: main(), from the empty maps to the start of the       *)
(* threads.  snapshot: the connection main reads the tables with still     *)
(* sees the mergeable rows as they were when its transaction began.        *)

\* the builders recovery gives a PR with a merge_sha
RecoveredBuilders(kind, try_) == BuildersOf(kind, FALSE)

\* one row of pull, without the demotion of a pending status
RecoverKeepsPending(m, r, n, kind) ==
    LET row == m.pull[<<r, n>>]
        fresh == [NewPullReqState(n, row.head_sha, row.status, m.counters.oids)
                    EXCEPT !.title = row.title, !.body = row.body,
                           !.head_ref = row.head_ref, !.base_ref = row.base_ref]
        m0 == [m EXCEPT !.states[r] = Put(@, n, fresh), !.counters.oids = @ + 1]
        m1 == set_mergeable(m0, r, n, "None", "None", TRUE)
        m2 == [m1 EXCEPT !.states[r][n].assignee = row.assignee,
                         !.states[r][n].approved_by = row.approved_by,
                         !.states[r][n].priority = row.priority,
                         !.states[r][n].try_ = row.try_,
                         !.states[r][n].rollup = row.rollup]
    IN IF row.merge_sha # <<>>
       THEN [init_build_res(m2, r, n, RecoveredBuilders(kind, row.try_), FALSE)
               EXCEPT !.states[r][n].merge_sha = row.merge_sha]
       ELSE m2

\* one row of pull
recover_pull(m, r, n, kind) ==
    LET row == m.pull[<<r, n>>]
        fresh == [NewPullReqState(n, row.head_sha, row.status, m.counters.oids)
                    EXCEPT !.title = row.title, !.body = row.body,
                           !.head_ref = row.head_ref, !.base_ref = row.base_ref]
        m0 == [m EXCEPT !.states[r] = Put(@, n, fresh), !.counters.oids = @ + 1]
        m1 == set_mergeable(m0, r, n, "None", "None", TRUE)
        m2 == [m1 EXCEPT !.states[r][n].assignee = row.assignee,
                         !.states[r][n].approved_by = row.approved_by,
                         !.states[r][n].priority = row.priority,
                         !.states[r][n].try_ = row.try_,
                         !.states[r][n].rollup = row.rollup]
    IN IF row.merge_sha # <<>>
       THEN [init_build_res(m2, r, n, RecoveredBuilders(kind, row.try_), FALSE)
               EXCEPT !.states[r][n].merge_sha = row.merge_sha]
       ELSE IF St(m2, r, n).status = "pending"
       THEN save([m2 EXCEPT !.states[r][n].status = ""], r, n)
       ELSE m2

RECURSIVE RecoverPulls(_, _, _)
RecoverPulls(m, ks, cfgs) ==
    IF ks = <<>> THEN m
    ELSE RecoverPulls(recover_pull(m, Head(ks)[1], Head(ks)[2], cfgs[Head(ks)[1]]),
                      Tail(ks), cfgs)

\* the rows of a table in the order the cursor gives them; only for pull does
\* the order show (in the prober's queue): by repo, then by num
RECURSIVE KeySeq(_)
KeySeq(K) ==
    IF K = {} THEN <<>>
    ELSE LET first == CHOOSE k \in K : TRUE
         IN <<first>> \o KeySeq(K \ {first})

RECURSIVE PullKeys(_, _)
PullKeys(K, j) ==
    IF j > Len(RepoOrder) THEN <<>>
    ELSE LET nums == AscSeq({k[2] : k \in {x \in K : x[1] = RepoOrder[j]}})
         IN [i \in 1..Len(nums) |-> <<RepoOrder[j], nums[i]>>] \o PullKeys(K, j + 1)

\* one row of build_res
recover_build_res(m, k) ==
    LET r == k[1]
        n == k[2]
        builder == k[3]
        row == m.build_res[k]
        known == n \in DOMAIN m.states[r]
                 /\ builder \in DOMAIN St(m, r, n).build_res
                 /\ St(m, r, n).merge_sha = row.merge_sha
    IN IF ~known
       THEN [m EXCEPT !.build_res = Del(@, {k}), !.fx.writes = @ + 1]
       ELSE [m EXCEPT !.states[r][n].build_res[builder] = [res |-> row.res, url |-> row.url]]

RECURSIVE RecoverBuildRes(_, _)
RecoverBuildRes(m, ks) ==
    IF ks = <<>> THEN m ELSE RecoverBuildRes(recover_build_res(m, Head(ks)), Tail(ks))

\* one row of mergeable, as the reading connection sees the table (seen)
recover_mergeable(m, k, seen) ==
    IF k[2] \notin DOMAIN m.states[k[1]]
    THEN [m EXCEPT !.mergeable = Del(@, {k}), !.fx.writes = @ + 1]
    ELSE [m EXCEPT !.states[k[1]][k[2]].mergeable = seen[k]]

RECURSIVE RecoverMergeable(_, _, _)
RecoverMergeable(m, ks, seen) ==
    IF ks = <<>> THEN m
    ELSE RecoverMergeable(recover_mergeable(m, Head(ks), seen), Tail(ks), seen)

recover(m, cfgs, snapshot) ==
    LET m0 == [m EXCEPT !.states = [r \in Repos |-> Empty],
                        !.slot = <<>>, !.que = <<>>, !.detached = Empty,
                        !.gh.echo = [k \in AllPulls |-> {}],
                        !.counters.oids = 0]
        m1 == RecoverPulls(m0, PullKeys(DOMAIN m0.pull, 1), cfgs)
        m2 == RecoverBuildRes(m1, KeySeq(DOMAIN m1.build_res))
        \* a DELETE of a stale build_res row commits, which ends the snapshot
        seen == IF snapshot /\ m2.build_res = m1.build_res THEN m.mergeable ELSE m2.mergeable
    IN RecoverMergeable(m2, KeySeq(DOMAIN seen), seen)

----------------------------------------------------------------------------
(* The intake of external events (server.py, whose code is not part of    *)
(* these sources): a push to a PR's branch and a CI report of one builder. *)

\* a push: the platform has a new head; the entity, if any, advances
push(m, r, n) ==
    LET k == <<r, n>>
        m1 == [m EXCEPT !.gh.nhead[k] = @ + 1,
                        !.gh.head[k] = HeadSha(m.gh.nhead[k] + 1),
                        !.gh.status[k] = ""]
    IN IF n \in DOMAIN m.states[r]
       THEN head_advanced(m1, r, n, m1.gh.head[k], TRUE)
       ELSE m1

\* a builder's report for the PR's build under test
report_build_res(m, r, n, builder, res) ==
    IF builder \notin DOMAIN St(m, r, n).build_res THEN Raise(m) ELSE
    LET m1 == set_build_res(m, r, n, builder, res, "url")
        m2 == IF m1.slot = St(m1, r, n).merge_sha THEN [m1 EXCEPT !.slot = <<>>] ELSE m1
        all_ok == \A b \in DOMAIN St(m2, r, n).build_res : St(m2, r, n).build_res[b].res = "True"
    IN IF res = "True"
       THEN (IF all_ok
             THEN CreateStatus(set_status(m2, r, n, "success"), r, n, "success", "homu")
             ELSE m2)
       ELSE IF St(m2, r, n).status = "pending"
       THEN CreateStatus(set_status(m2, r, n, "failure"), r, n, "failure", "homu")
       ELSE m2

----------------------------------------------------------------------------
(* The system: the platform's open PRs, the threads main() starts and the  *)
(* events the intake delivers.  Every action takes the alphabet of its     *)
(* inputs, so that the specifications below share the operations.          *)

Authorized(u) == u \in Reviewers \/ u = my_username

Line(ws) == <<Mention>> \o ws
\* the bot's own acknowledgement of an approval, read back as a comment
EchoBody(approver, sha) ==
    << <<<<"<","!","-","-">>, Mention, W_req \o approver, sha, <<"-","-",">">> >> >>

HasForce(body) == \E i \in 1..Len(body) : \E j \in 1..Len(body[i]) : body[i][j] = W_force
ForceResps == {"ok", "authzfail", "error", "raise"}

\* the comment histories of one PR a synchronize may find: up to MaxReplay
\* comments out of singles
Histories(singles) == UNION {[1..k -> singles] : k \in 0..MaxReplay}

\* what a synchronize finds for one PR: too old to look at, or its comments
Finds(singles, ignores) ==
    {[ignore |-> FALSE, comments |-> h] : h \in Histories(singles)}
    \cup {[ignore |-> TRUE, comments |-> <<>>] : i \in ignores \ {FALSE}}

Last(op, r, n, args, fx) == [op |-> op, repo |-> r, num |-> n, args |-> args, fx |-> fx]

InitOf(cfgs, layouts) ==
    /\ repo_cfgs \in cfgs
    /\ states = [r \in Repos |-> Empty]
    /\ db_pull = Empty
    /\ db_build_res = Empty
    /\ db_mergeable = Empty
    /\ buildbot_slots = <<>>
    /\ mergeable_que = <<>>
    /\ detached = Empty
    /\ sync_pc = [r \in Repos |-> "start"]
    /\ \E open \in layouts :
       gh = [open |-> open,
             nhead |-> [k \in AllPulls |-> 0],
             head |-> [k \in AllPulls |-> HeadSha(0)],
             status |-> [k \in AllPulls |-> ""],
             title |-> [k \in AllPulls |-> "title"],
             body |-> [k \in AllPulls |-> "body"],
             echo |-> [k \in AllPulls |-> {}]]
    /\ counters = [merges |-> 0, oids |-> 0, events |-> 0]
    /\ last = Last("init", "", 0, "None", NoFx)

\* the synchronize thread of repo r, from its start to its end
Synchronize(r, singles, ignores) ==
    /\ sync_pc[r] = "start"
    /\ \E found \in [gh.open[r] -> Finds(singles, ignores)] :
         LET m == synchronize(Cur, r, found, repo_cfgs[r]) IN
         /\ Commit(m)
         /\ last' = Last("synchronize", r, 0, [found |-> found], m.fx)
    /\ sync_pc' = [sync_pc EXCEPT ![r] = "done"]
    /\ UNCHANGED repo_cfgs

\* a comment arrives: parse_commands in realtime mode; a review comment
\* carries the commit it was made on
Comment(r, n, users, bodies, reviews, budget) ==
    /\ n \in DOMAIN states[r]
    /\ counters.events < budget
    /\ \E user \in users, body \in bodies, review \in reviews :
         \E resp \in (IF HasForce(body) THEN ForceResps ELSE {"ok"}) :
           LET sha == IF review THEN gh.head[<<r, n>>] ELSE <<>>
               m == parse_commands([Cur EXCEPT !.counters.events = @ + 1],
                                   r, n, body, user, TRUE, sha, repo_cfgs[r], resp) IN
           /\ Commit(m)
           /\ last' = Last("parse_commands", r, n,
                           [user |-> user, body |-> body, realtime |-> TRUE, sha |-> sha], m.fx)
    /\ UNCHANGED <<repo_cfgs, sync_pc>>

\* the bot's acknowledgement of an approval arrives as a comment of its own
Echo(r, n) ==
    /\ n \in DOMAIN states[r]
    /\ \E c \in gh.echo[<<r, n>>] :
         LET body == EchoBody(c.approver, c.sha)
             m0 == [Cur EXCEPT !.gh.echo[<<r, n>>] = @ \ {c}]
             m == parse_commands(m0, r, n, body, my_username, TRUE, <<>>, repo_cfgs[r], "ok")
         IN /\ Commit(m)
            /\ last' = Last("parse_commands", r, n,
                            [user |-> my_username, body |-> body, realtime |-> TRUE, sha |-> <<>>], m.fx)
    /\ UNCHANGED <<repo_cfgs, sync_pc>>

\* what the platform and the session-CI may answer when process_queue
\* dispatches the PR k
OutcomesOf(k) ==
    IF k[2] \notin DOMAIN states[k[1]] THEN {"ok"}
    ELSE LET e == states[k[1]][k[2]]
             res == e.build_res
             rebuilds == /\ repo_cfgs[k[1]] = "buildbot"
                         /\ e.status = "" /\ e.approved_by # <<>>
                         /\ DOMAIN res # {}
                         /\ \A b \in DOMAIN res : res[b].url # ""
                         /\ \E b \in DOMAIN res : res[b].res = "True"
                         /\ \E b \in DOMAIN res : res[b].res # "True"
             builds == \/ e.status = "" /\ (e.approved_by # <<>> \/ e.try_)
                       \/ e.status = "success" /\ e.try_ /\ e.approved_by # <<>>
         IN IF rebuilds THEN Outcomes
            ELSE IF builds THEN {"ok", "conflict", "raise"}
            ELSE {"ok"}

RECURSIVE EnvsOver(_)
EnvsOver(K) ==
    IF K = {} THEN {Empty}
    ELSE LET k == CHOOSE x \in K : TRUE
         IN {Put(f, k, o) : f \in EnvsOver(K \ {k}), o \in OutcomesOf(k)}

Envs == EnvsOver(AllPulls)

\* queue_handler: process_queue under queue_handler_lock
ProcessQueue ==
    /\ \E env \in Envs :
         LET Done(m) == /\ m.counters.merges <= MaxMerges
                        /\ Commit(m)
                        /\ last' = Last("process_queue", "", 0, "None", m.fx)
         IN Done(process_queue(Cur, 1, repo_cfgs, env))
    /\ UNCHANGED <<repo_cfgs, sync_pc>>

Push(r, n, budget) ==
    /\ n \in gh.open[r]
    /\ counters.events < budget
    /\ LET m == push([Cur EXCEPT !.counters.events = @ + 1], r, n) IN
       /\ Commit(m)
       /\ last' = Last("head_advanced", r, n, [held |-> n \in DOMAIN states[r]], m.fx)
    /\ UNCHANGED <<repo_cfgs, sync_pc>>

BuildResult(r, n, budget) ==
    /\ n \in DOMAIN states[r]
    /\ states[r][n].status = "pending"
    /\ states[r][n].merge_sha # <<>>
    /\ counters.events < budget
    /\ \E builder \in BuildersOf(repo_cfgs[r], states[r][n].try_), res \in {"True", "False"} :
         /\ builder \in DOMAIN states[r][n].build_res => states[r][n].build_res[builder].res = "None"
         /\ LET m == report_build_res([Cur EXCEPT !.counters.events = @ + 1],
                                       r, n, builder, res) IN
            /\ Commit(m)
            /\ last' = Last("report_build_res", r, n, [builder |-> builder, res |-> res], m.fx)
    /\ UNCHANGED <<repo_cfgs, sync_pc>>

\* one iteration of the prober's loop
Probe(answers) ==
    /\ mergeable_que # <<>>
    /\ \E ans1 \in answers, ans2 \in {"None", "True", "False"} :
         LET m == Collect(fetch_mergeability(Cur, ans1, ans2)) IN
         /\ (ans1 = "None" \/ ans2 = "None")
         /\ Commit(m)
         /\ last' = Last("fetch_mergeability", Head(mergeable_que).repo, Head(mergeable_que).num,
                         [ans1 |-> ans1, ans2 |-> ans2], m.fx)
    /\ UNCHANGED <<repo_cfgs, sync_pc>>

\* the process stops and starts again: main() up to the start of its threads
Restart(budget) ==
    /\ counters.events < budget
    /\ \E snapshot \in BOOLEAN :
         LET m == recover([Cur EXCEPT !.counters.events = @ + 1], repo_cfgs, snapshot) IN
         /\ Commit(m)
         /\ last' = Last("recover", "", 0, [snapshot |-> snapshot, pull |-> db_pull], m.fx)
    /\ sync_pc' = [r \in Repos |-> "start"]
    /\ UNCHANGED repo_cfgs

----------------------------------------------------------------------------
(* The scheduler's runs: two PRs, in one repository or one in each, and    *)
(* the commands that start and stop builds.                                *)

Layouts == { [r \in Repos |-> IF r = "r1" THEN {1, 2} ELSE {}],
             [r \in Repos |-> {1}] }
Cfgs == {c \in [Repos -> CiKinds] : c["r2"] = "travis"}

Bodies ==
    { << Line(<<W_rplus, <<"d","e","a","d">> >>) >>,
      << Line(<<W_retry>>) >>,
      << Line(<<W_try>>) >>,
      << Line(<<W_tryminus>>) >>,
      << Line(<<W_clean>>) >> }

Replayed == {[user |-> my_username, body |-> EchoBody(Alice, HeadSha(0)), review |-> FALSE]}

Init == InitOf(Cfgs, Layouts)

Next ==
    \/ \E r \in Repos : Synchronize(r, Replayed, {FALSE})
    \/ \E k \in AllPulls : Comment(k[1], k[2], {Alice}, Bodies, {FALSE}, MaxEvents)
    \/ ProcessQueue
    \/ \E k \in AllPulls : Push(k[1], k[2], MaxEvents)
    \/ \E k \in AllPulls : BuildResult(k[1], k[2], MaxEvents)

Spec == Init /\ [][Next]_vars

----------------------------------------------------------------------------
(* The store's runs: the process restarts and recovers from its tables,    *)
(* the prober answers.                                                     *)

StoreLayouts == { [r \in Repos |-> IF r = "r1" THEN {1} ELSE {}] }

ProberAnswers == {"True", "False", "None", "raise"}

StoreBodies ==
    { << Line(<<W_retry>>) >>,
      << Line(<<W_try>>) >>,
      << Line(<<W_clean>>) >> }

InitStore == InitOf(Cfgs, StoreLayouts)

NextStore ==
    \/ \E r \in Repos : Synchronize(r, Replayed, BOOLEAN)
    \/ \E k \in AllPulls : Comment(k[1], k[2], {Alice}, StoreBodies, {FALSE}, MaxStoreEvents)
    \/ ProcessQueue
    \/ \E k \in AllPulls : Push(k[1], k[2], MaxStoreEvents)
    \/ \E k \in AllPulls : BuildResult(k[1], k[2], MaxStoreEvents)
    \/ Probe(ProberAnswers)
    \/ Restart(MaxStoreEvents)

SpecStore == InitStore /\ [][NextStore]_vars

\* the prober's thread runs for as long as the process does: whenever its
\* queue holds an item, the blocking get() returns and the loop's body runs
SpecStoreFair == SpecStore /\ WF_vars(Probe(ProberAnswers))

----------------------------------------------------------------------------
(* The parser's runs: one PR, every command, authors with and without the  *)
(* right to command, review comments and issue comments.                   *)

ParserBodies ==
    { << Line(<<W_rplus>>) >>,
      << Line(<<W_rplus, <<"d","e","a","d">> >>) >>,
      << Line(<<W_rplus, <<"b","e","e","f">> >>) >>,
      << Line(<<W_rplus, <<"d","e","a">> >>) >>,
      << Line(<<W_rplus, <<"d","e","a","d","X">> >>) >>,
      << Line(<<W_req \o Carol, <<"d","e","a","d">> >>) >>,
      << Line(<<W_req \o Carol, <<"b","e","e","f">> >>) >>,
      << Line(<<W_rminus>>) >>,
      << Line(<<W_peq \o <<"1">> >>) >>,
      << Line(<<W_retry>>) >>,
      << Line(<<W_try>>) >>,
      << Line(<<W_tryminus>>) >>,
      << Line(<<W_rollup>>) >>,
      << Line(<<W_clean>>) >>,
      << Line(<<W_force>>) >>,
      << <<W_clean>>, Line(<<W_try>>) >>,
      << <<W_clean>> >> }

ParserReplayed ==
    { [user |-> u, body |-> b, review |-> rv] :
        u \in {my_username, Alice, Mallory},
        b \in { EchoBody(Alice, HeadSha(0)), << Line(<<W_rplus>>) >>, << Line(<<W_try>>) >> },
        rv \in BOOLEAN }

InitParser == InitOf(Cfgs, StoreLayouts)

NextParser ==
    \/ \E r \in Repos : Synchronize(r, ParserReplayed, BOOLEAN)
    \/ \E k \in AllPulls : Comment(k[1], k[2], {Alice, Mallory}, ParserBodies, BOOLEAN, MaxParserEvents)
    \/ \E k \in AllPulls : Echo(k[1], k[2])
    \/ ProcessQueue
    \/ \E k \in AllPulls : Push(k[1], k[2], MaxParserEvents)
    \/ \E k \in AllPulls : BuildResult(k[1], k[2], MaxParserEvents)

SpecParser == InitParser /\ [][NextParser]_vars

----------------------------------------------------------------------------
(* The rebuilds' runs: two PRs of one session-CI repository, builds that   *)
(* fail on one builder, 'retry' and try builds.                            *)

RebuildLayouts == { [r \in Repos |-> IF r = "r1" THEN {1, 2} ELSE {}] }
RebuildCfgs == {c \in Cfgs : c["r1"] = "buildbot"}

RebuildBodies ==
    { << Line(<<W_retry>>) >>,
      << Line(<<W_try>>) >> }

InitRebuild == InitOf(RebuildCfgs, RebuildLayouts)

NextRebuild ==
    \/ \E r \in Repos : Synchronize(r, Replayed, {FALSE})
    \/ \E k \in AllPulls : Comment(k[1], k[2], {Alice}, RebuildBodies, {FALSE}, MaxRebuildEvents)
    \/ ProcessQueue
    \/ \E k \in AllPulls : BuildResult(k[1], k[2], MaxRebuildEvents)

SpecRebuild == InitRebuild /\ [][NextRebuild]_vars

----------------------------------------------------------------------------
(* The ordering alone: the PRs of one repository drawn from every status,  *)
(* approval, rollup flag, priority and mergeability, then sorted.          *)

Drawn(num, statuses, mergeables, rollups, priorities) ==
    { [NewPullReqState(num, HeadSha(0), s, num)
         EXCEPT !.approved_by = a, !.mergeable = mg, !.rollup = ro, !.priority = p] :
        s \in statuses, a \in {<<>>, Alice}, mg \in mergeables,
        ro \in rollups, p \in priorities }

\* the four PRs of the ordering scenario
Scenario ==
    LET pr(num, status, approved_by, rollup, priority) ==
          [NewPullReqState(num, HeadSha(0), status, num)
             EXCEPT !.approved_by = approved_by, !.rollup = rollup, !.priority = priority]
    IN Put(Put(Put(Put(Empty, 10, pr(10, "pending", Alice, FALSE, 0)),
                   20, pr(20, "", Alice, FALSE, 0)),
               15, pr(15, "", Alice, TRUE, 0)),
           30, pr(30, "", <<>>, FALSE, 5))

OrderInputs ==
    {Scenario} \cup
    { Put(Put(Put(Empty, 10, a), 20, b), 30, c) :
        a \in Drawn(10, Statuses, {"None", "False"}, BOOLEAN, {0, 5}),
        b \in Drawn(20, Statuses, {"None", "False"}, BOOLEAN, {0, 5}),
        c \in Drawn(30, {"", "success", "failure"}, {"True", "False"}, {FALSE}, {0}) }

InitOrder ==
    /\ repo_cfgs = [r \in Repos |-> "travis"]
    /\ \E prs \in OrderInputs : states = [r \in Repos |-> IF r = "r1" THEN prs ELSE Empty]
    /\ db_pull = Empty
    /\ db_build_res = Empty
    /\ db_mergeable = Empty
    /\ buildbot_slots = <<>>
    /\ mergeable_que = <<>>
    /\ detached = Empty
    /\ sync_pc = [r \in Repos |-> "done"]
    /\ gh = [open |-> [r \in Repos |-> {}],
             nhead |-> [k \in AllPulls |-> 0],
             head |-> [k \in AllPulls |-> HeadSha(0)],
             status |-> [k \in AllPulls |-> ""],
             title |-> [k \in AllPulls |-> "title"],
             body |-> [k \in AllPulls |-> "body"],
             echo |-> [k \in AllPulls |-> {}]]
    /\ counters = [merges |-> 0, oids |-> 0, events |-> 0]
    /\ last = Last("init", "", 0, "None", NoFx)

\* sorted(states[repo_label].values())
Sorted(r) ==
    /\ last.op = "init"
    /\ DOMAIN states[r] # {}
    /\ last' = Last("sorted", r, 0, [order |-> repo_states(states[r], DOMAIN states[r])], NoFx)
    /\ UNCHANGED <<repo_cfgs, states, db_pull, db_build_res, db_mergeable,
                   buildbot_slots, mergeable_que, detached, sync_pc, gh, counters>>

NextOrder == \E r \in Repos : Sorted(r)

SpecOrder == InitOrder /\ [][NextOrder]_vars

----------------------------------------------------------------------------
(* The claims.                                                             *)

Held == {k \in AllPulls : k[2] \in DOMAIN states[k[1]]}
Pr(k) == states[k[1]][k[2]]

\* C1: every repository has at most one PR whose status is 'pending' and
\* whose try_ is false.
C1_OneLandingBuild ==
    \A r \in Repos :
      Cardinality({n \in DOMAIN states[r] :
                     states[r][n].status = "pending" /\ ~states[r][n].try_}) <= 1

\* C2: buildbot_slots[0] is empty or is the merge_sha of a PR held in states.
C2_SlotIsSomeMergeSha ==
    buildbot_slots = <<>> \/ \E k \in Held : Pr(k).merge_sha = buildbot_slots

\* C3: one process_queue visits the PRs of a repository, in each of its two
\* passes, in ascending sort_key order, and over all repositories at most one
\* PR changes to status 'pending'.
C3_InOrderAtMostOneBuild ==
    [][last'.op = "process_queue" =>
         LET visited == last'.fx.visited IN
         /\ \A i, j \in 1..Len(visited) :
              (i < j /\ visited[i][1] = visited[j][1] /\ visited[i][3] = visited[j][3])
                => lt(states[visited[i][1]][visited[i][2]],
                      states[visited[j][1]][visited[j][2]])
         /\ Cardinality({k \in Held : Pr(k).status # "pending"
                                      /\ states'[k[1]][k[2]].status = "pending"}) <= 1
      ]_vars

\* C3's case: a process_queue that passed a PR of a higher number before one
\* of a lower number in the same repository and pass, and started a build.
C3_Witness ==
    /\ last.op = "process_queue"
    /\ last.fx.ret = "return"
    /\ \E c \in 1..Len(last.fx.comments) : last.fx.comments[c].kind = "hourglass"
    /\ \E i, j \in 1..Len(last.fx.visited) :
         /\ i < j
         /\ last.fx.visited[i][1] = last.fx.visited[j][1]
         /\ last.fx.visited[i][3] = last.fx.visited[j][3]
         /\ last.fx.visited[i][2] > last.fx.visited[j][2]

\* the operation l was a realtime parse_commands by an author with the right
\* to command that ran to its end and met the word w
Says(l, w) ==
    /\ l.op = "parse_commands"
    /\ Authorized(l.args.user)
    /\ l.args.realtime
    /\ ~l.fx.exc
    /\ \E i \in 1..Len(MentionWords(l.args.body)) : MentionWords(l.args.body)[i] = w

Advanced(l) == l.op = "head_advanced" /\ l.args.held

\* C4 (as the code has it): after a realtime 'clean', 'try' or 'try-' and
\* after a head advance the PR's merge_sha is empty; a realtime 'retry' alone
\* leaves merge_sha as it was.
C4_FreshBuildClearsMergeSha ==
    [][LET l == last'
           fresh == Says(l, W_clean) \/ Says(l, W_try) \/ Says(l, W_tryminus) \/ Advanced(l)
       IN /\ fresh => states'[l.repo][l.num].merge_sha = <<>>
          /\ (Says(l, W_retry) /\ ~fresh)
               => states'[l.repo][l.num].merge_sha = states[l.repo][l.num].merge_sha
      ]_vars

\* C4's case: 'clean' met a PR whose build was under way.
C4_Witness ==
    /\ Says(last, W_clean)
    /\ states[last.repo][last.num].status = "pending"
    /\ states[last.repo][last.num].merge_sha = <<>>
    /\ last.fx.writes > 0

\* C4 as stated: also after a realtime 'retry' the PR's merge_sha is empty.
C4_AsStated ==
    (Says(last, W_retry) \/ Says(last, W_clean) \/ Says(last, W_try)
       \/ Says(last, W_tryminus) \/ Advanced(last))
      => states[last.repo][last.num].merge_sha = <<>>

\* C5: after parse_commands, head_advanced (use_db) or process_queue returns,
\* the pull row of each PR it may have changed equals the entity in every
\* column.
C5_RowEqualsEntity ==
    LET touched == IF last.op \in {"parse_commands", "head_advanced"}
                   THEN {<<last.repo, last.num>>} \cap Held
                   ELSE IF last.op = "process_queue" THEN Held ELSE {}
    IN \A k \in touched : k \in DOMAIN db_pull /\ db_pull[k] = RowOf(Pr(k))

\* the tables hold of PR k what its entity e holds
Stored(e, k) ==
    LET rows == {x \in DOMAIN db_build_res : x[1] = k[1] /\ x[2] = k[2]} IN
    /\ k \in DOMAIN db_pull
    /\ db_pull[k] = RowOf(e)
    /\ {x[3] : x \in rows} = {b \in DOMAIN e.build_res : e.build_res[b].res # "None"}
    /\ \A x \in rows : db_build_res[x] = [res |-> e.build_res[x[3]].res,
                                          url |-> e.build_res[x[3]].url,
                                          merge_sha |-> e.merge_sha]
    /\ IF e.mergeable = "None" THEN k \notin DOMAIN db_mergeable
       ELSE k \in DOMAIN db_mergeable /\ db_mergeable[k] = e.mergeable

\* C6: recovery gives, for every PR whose rows hold what its entity holds, an
\* entity equal to it in every attribute, but for the merge_sha of a PR in
\* try mode.
C6_RecoverRoundTrip ==
    [][last'.op = "recover" =>
         \A k \in Held :
           Stored(Pr(k), k) =>
             /\ k[2] \in DOMAIN states'[k[1]]
             /\ [states'[k[1]][k[2]] EXCEPT
                   !.oid = Pr(k).oid,
                   !.merge_sha = IF Pr(k).try_ THEN Pr(k).merge_sha ELSE @] = Pr(k)
      ]_vars

\* C7: recovery gives every pull row with status 'pending' and no merge_sha
\* a PR whose status is '' in memory and in the row, as process_queue wants
\* it to dispatch the PR.
C7_PendingWithoutMergeShaDemoted ==
    last.op = "recover" =>
      \A k \in DOMAIN last.args.pull :
        (last.args.pull[k].status = "pending" /\ last.args.pull[k].merge_sha = <<>>) =>
          /\ k \in Held
          /\ Pr(k).status = ""
          /\ k \in DOMAIN db_pull
          /\ db_pull[k] = [last.args.pull[k] EXCEPT !.status = ""]
          /\ ((Pr(k).approved_by # <<>> \/ Pr(k).try_) => "conflict" \in OutcomesOf(k))

\* C7's case: a recovery met the row of an approved or try PR with status
\* 'pending' and no merge_sha.
C7_Witness ==
    /\ last.op = "recover"
    /\ \E k \in DOMAIN last.args.pull :
         /\ last.args.pull[k].status = "pending"
         /\ last.args.pull[k].merge_sha = <<>>
         /\ last.args.pull[k].approved_by # <<>> \/ last.args.pull[k].try_
         /\ k \in Held
         /\ Pr(k).status = ""

\* C8: every build_res row is of a PR held in states, carries that PR's
\* merge_sha and names a builder of that PR's build_res.
C8_BuildResRowsBelong ==
    \A x \in DOMAIN db_build_res :
      /\ x[2] \in DOMAIN states[x[1]]
      /\ db_build_res[x].merge_sha = states[x[1]][x[2]].merge_sha
      /\ x[3] \in DOMAIN states[x[1]][x[2]].build_res

\* C8's case: a recovery that read a build_res row and kept it.
C8_Witness ==
    /\ last.op = "recover"
    /\ db_build_res # Empty
    /\ \E x \in DOMAIN db_build_res :
         states[x[1]][x[2]].build_res[x[3]].res = db_build_res[x].res

\* the order the ordering is said to be: by the rank of the effective status,
\* then known-unmergeable last, unapproved last, rollups last, the higher
\* priority first, the lower number first
Rank(e) ==
    LET effective == IF e.status = "" /\ e.approved_by # <<>> /\ e.mergeable # "False"
                     THEN "approved" ELSE e.status
    IN CASE effective = "success" -> 0
         [] effective = "pending" -> 1
         [] effective = "approved" -> 2
         [] effective = "" -> 3
         [] effective = "error" -> 4
         [] effective = "failure" -> 5

Before(a, b) ==
    LET unmergeable(e) == e.mergeable = "False"
        unapproved(e) == e.approved_by = <<>>
    IN IF Rank(a) # Rank(b) THEN Rank(a) < Rank(b)
       ELSE IF unmergeable(a) # unmergeable(b) THEN unmergeable(b)
       ELSE IF unapproved(a) # unapproved(b) THEN unapproved(b)
       ELSE IF a.rollup # b.rollup THEN b.rollup
       ELSE IF a.priority # b.priority THEN a.priority > b.priority
       ELSE a.num < b.num

\* C9: __lt__ is a strict total order on the PRs of a repository, it is the
\* order Before, sorted() follows it, and the four PRs of the scenario sort
\* as 10, 20, 15, 30.
C9_StrictTotalOrder ==
    \A r \in Repos :
      LET prs == states[r]
          nums == DOMAIN prs
      IN /\ \A a, b \in nums :
              /\ lt(prs[a], prs[b]) <=> Before(prs[a], prs[b])
              /\ a = b => ~lt(prs[a], prs[b])
              /\ a # b => (lt(prs[a], prs[b]) <=> ~lt(prs[b], prs[a]))
              /\ \A c \in nums : (lt(prs[a], prs[b]) /\ lt(prs[b], prs[c])) => lt(prs[a], prs[c])
         /\ (last.op = "sorted" /\ last.repo = r) =>
              LET order == last.args.order IN
              /\ Len(order) = Cardinality(nums)
              /\ {order[i] : i \in 1..Len(order)} = nums
              /\ \A i, j \in 1..Len(order) : i < j => lt(prs[order[i]], prs[order[j]])
              /\ prs = Scenario => order = <<10, 20, 15, 30>>

\* C9's case: the scenario's four PRs were sorted.
C9_Witness ==
    /\ last.op = "sorted"
    /\ states[last.repo] = Scenario
    /\ last.args.order = <<10, 20, 15, 30>>

\* the comments of authors with the right to command
ByAuthorized(c) == Authorized(c.user)

\* C10: parse_commands for an author who is neither a reviewer nor the bot
\* changes no attribute of a PR, writes no row, posts no comment and asks
\* nothing of the CI: in realtime mode nothing but the count of events
\* changes, and a synchronize ends as it would without that author's comments.
C10_UnauthorizedAuthorNoEffect ==
    [][LET l == last' IN
       /\ (l.op = "parse_commands" /\ ~Authorized(l.args.user)) =>
            /\ UNCHANGED <<states, db_pull, db_build_res, db_mergeable,
                           buildbot_slots, mergeable_que, detached, gh>>
            /\ l.fx = [NoFx EXCEPT !.ret = "False"]
       /\ l.op = "synchronize" =>
            LET without == [n \in DOMAIN l.args.found |->
                              [l.args.found[n] EXCEPT !.comments = SelectSeq(@, ByAuthorized)]]
                m == synchronize(Cur, l.repo, without, repo_cfgs[l.repo])
            IN /\ states' = m.states
               /\ db_pull' = m.pull
               /\ db_build_res' = m.build_res
               /\ db_mergeable' = m.mergeable
               /\ buildbot_slots' = m.slot
               /\ mergeable_que' = m.que
               /\ gh' = m.gh
               /\ l.fx = m.fx
      ]_vars

\* C10's case: an author without the right to command sent 'clean' to a PR
\* whose build was under way.
C10_Witness ==
    /\ last.op = "parse_commands"
    /\ ~Authorized(last.args.user)
    /\ last.args.realtime
    /\ \E i \in 1..Len(MentionWords(last.args.body)) : MentionWords(last.args.body)[i] = W_clean
    /\ states[last.repo][last.num].merge_sha # <<>>

\* C10's other case: a synchronize replayed the 'r+' such an author made on
\* the head commit.
C10_ReplayWitness ==
    /\ last.op = "synchronize"
    /\ \E n \in DOMAIN last.args.found :
         /\ Len(last.args.found[n].comments) = 1
         /\ ~Authorized(last.args.found[n].comments[1].user)
         /\ last.args.found[n].comments[1].review
         /\ last.args.found[n].comments[1].body = << Line(<<W_rplus>>) >>
         /\ states[last.repo][n].approved_by = <<>>

----------------------------------------------------------------------------
(* Approvals.                                                              *)

\* the operation l was parse_commands, run to its end, of the one-line
\* comment '@bot' followed by the words ws
Parsed(l, ws) ==
    /\ l.op = "parse_commands"
    /\ ~l.fx.exc
    /\ l.args.body = << Line(ws) >>

IsHex(tok) ==
    /\ tok # <<>>
    /\ \A i \in 1..Len(tok) :
         tok[i] \in {"0","1","2","3","4","5","6","7","8","9","a","b","c","d","e","f"}

Prefix(tok, full) ==
    /\ Len(tok) <= Len(full)
    /\ \A i \in 1..Len(tok) : tok[i] = full[i]

\* tok names the commit full
Names(tok, full) == Len(tok) >= 4 /\ Prefix(tok, full)

ApprovalWords == {W_rplus, W_req \o Carol}
ApproverOf(w, user) == IF w = W_rplus THEN user ELSE Carol
Tokens == { <<"d","e","a","d">>, <<"b","e","e","f">>, <<"d","e","a">>,
            <<"d","e","a","d","X">> }

Posted(l, kind, arg) ==
    l.fx.comments = << [repo |-> l.repo, num |-> l.num, kind |-> kind, arg |-> arg] >>

\* C11 (as the code has it): a reviewer's realtime 'r+' with no SHA leaves
\* the PR as it is and posts the acknowledgement that carries
\* 'r=<author> <head_sha>'; approved_by becomes the author when the bot's
\* own acknowledgement is parsed, or at once when the 'r+' comes as a review
\* comment on the head commit.
C11_PlainApprovalByAcknowledgement ==
    [][LET l == last'
           e == states[l.repo][l.num]
           e2 == states'[l.repo][l.num]
       IN /\ (Parsed(l, <<W_rplus>>) /\ l.args.user \in Reviewers /\ l.args.realtime) =>
               IF l.args.sha = <<>>
               THEN /\ e2 = e
                    /\ Posted(l, "pushpin", [approver |-> l.args.user, sha |-> e.head_sha])
               ELSE l.args.sha = e.head_sha => e2.approved_by = l.args.user
          /\ \A a \in {Alice, Carol} :
               (/\ l.op = "parse_commands"
                /\ l.args.user = my_username
                /\ l.args.body = EchoBody(a, e.head_sha)) => e2.approved_by = a
      ]_vars

\* C11's case: the bot's acknowledgement of Alice's 'r+' came back and
\* approved the PR.
C11_Witness ==
    /\ last.op = "parse_commands"
    /\ last.args.user = my_username
    /\ last.args.realtime
    /\ last.args.body = EchoBody(Alice, states[last.repo][last.num].head_sha)
    /\ states[last.repo][last.num].approved_by = Alice

\* C11 as stated: after parse_commands of a reviewer's 'r+' with no SHA,
\* approved_by is the comment's author.
C11_AsStated ==
    (Parsed(last, <<W_rplus>>) /\ last.args.user \in Reviewers)
      => states[last.repo][last.num].approved_by = last.args.user

\* C12 (as the code has it): in a comment that carries no commit of its own,
\* 'r+ <sha>' or 'r=<user> <sha>' of an author with the right to command
\* sets approved_by if <sha> has 4 characters or more and is a prefix of
\* head_sha, and leaves approved_by as it was if not.
C12_ApprovedIffShaNamesHead ==
    [][LET l == last' IN
       \A w \in ApprovalWords, tok \in Tokens :
         (Parsed(l, <<w, tok>>) /\ Authorized(l.args.user) /\ l.args.sha = <<>>) =>
           LET e == states[l.repo][l.num]
               e2 == states'[l.repo][l.num]
           IN IF Names(tok, e.head_sha)
              THEN e2.approved_by = ApproverOf(w, l.args.user)
              ELSE e2.approved_by = e.approved_by
      ]_vars

\* C12's case: 'r=ca dead' approved the PR in Carol's name.
C12_Witness ==
    /\ Parsed(last, <<W_req \o Carol, <<"d","e","a","d">> >>)
    /\ last.args.sha = <<>>
    /\ states[last.repo][last.num].approved_by = Carol
    /\ last.fx.writes > 0

\* C12 as stated: in every comment, also one made on a commit.
C12_AsStated ==
    [][LET l == last' IN
       \A w \in ApprovalWords, tok \in Tokens :
         (Parsed(l, <<w, tok>>) /\ Authorized(l.args.user)) =>
           LET e == states[l.repo][l.num]
               e2 == states'[l.repo][l.num]
           IN IF Names(tok, e.head_sha)
              THEN e2.approved_by = ApproverOf(w, l.args.user)
              ELSE e2.approved_by = e.approved_by
      ]_vars

\* C13 (as the code has it): a reviewer's realtime approval followed by a
\* token that does not name the head changes nothing of the PR or the
\* tables; a hexadecimal token is answered with the 'question' comment that
\* names it, any other token is taken for no SHA and answered with the
\* acknowledgement of the approval.
C13_InvalidShaAnswered ==
    [][LET l == last' IN
       \A w \in ApprovalWords, tok \in Tokens :
         LET e == states[l.repo][l.num] IN
         (/\ Parsed(l, <<w, tok>>)
          /\ l.args.user \in Reviewers
          /\ l.args.realtime
          /\ l.args.sha = <<>>
          /\ ~Names(tok, e.head_sha)) =>
           /\ UNCHANGED <<states, db_pull, db_build_res, db_mergeable>>
           /\ IF IsHex(tok)
              THEN Posted(l, "question", tok)
              ELSE Posted(l, "pushpin", [approver |-> ApproverOf(w, l.args.user),
                                         sha |-> e.head_sha])
      ]_vars

\* C13's case: 'r+ beef' met a PR that Alice had approved.
C13_Witness ==
    /\ Parsed(last, <<W_rplus, <<"b","e","e","f">> >>)
    /\ last.args.user \in Reviewers
    /\ last.args.sha = <<>>
    /\ Posted(last, "question", <<"b","e","e","f">>)
    /\ states[last.repo][last.num].approved_by = Alice

\* C13 as stated: the comment posted is the 'question' comment, for a token
\* that is not hexadecimal too.
C13_AsStated ==
    \A w \in ApprovalWords, tok \in Tokens :
      (/\ Parsed(last, <<w, tok>>)
       /\ last.args.user \in Reviewers
       /\ last.args.realtime
       /\ last.args.sha = <<>>
       /\ ~Names(tok, states[last.repo][last.num].head_sha))
        => Posted(last, "question", tok)

\* the machine after the step
After ==
    [states |-> states', pull |-> db_pull', build_res |-> db_build_res',
     mergeable |-> db_mergeable', slot |-> buildbot_slots',
     que |-> mergeable_que', detached |-> detached', gh |-> gh',
     counters |-> counters', fx |-> NoFx]

\* C14: parse_commands once more with the same arguments, whatever the
\* session-CI answers, leaves the PR, its pull row and its build_res rows as
\* the first call left them.
C14_ParseTwiceIsParseOnce ==
    [][LET l == last' IN
       (l.op = "parse_commands" /\ Authorized(l.args.user)) =>
         \A resp \in ForceResps :
           LET m2 == parse_commands(After, l.repo, l.num, l.args.body, l.args.user,
                                    l.args.realtime, l.args.sha, repo_cfgs[l.repo], resp)
           IN /\ m2.states[l.repo][l.num] = states'[l.repo][l.num]
              /\ m2.pull = db_pull'
              /\ m2.build_res = db_build_res'
      ]_vars

\* C14's case: 'try' took a PR whose landing build was under way into try
\* mode.
C14_Witness ==
    /\ Says(last, W_try)
    /\ last.fx.writes > 0
    /\ states[last.repo][last.num].try_
    /\ states[last.repo][last.num].status = "pending"
    /\ states[last.repo][last.num].approved_by # <<>>

----------------------------------------------------------------------------
(* Builds.                                                                 *)

\* the calls of start_build in the operation l that returned v
StartsOf(l, v) == {i \in 1..Len(l.fx.starts) : l.fx.starts[i].ret = v}

HasComment(l, k, kind) ==
    \E i \in 1..Len(l.fx.comments) :
      /\ l.fx.comments[i].repo = k[1] /\ l.fx.comments[i].num = k[2]
      /\ l.fx.comments[i].kind = kind

HasCheck(l, k, state) ==
    \E i \in 1..Len(l.fx.checks) :
      l.fx.checks[i] = [repo |-> k[1], num |-> k[2], state |-> state, context |-> "homu"]

\* C15: when the merge request of start_build is answered 409, start_build
\* returns False, the PR's status is 'error' in memory and in its row, an
\* error status check of context 'homu' is created and the 'lock' comment
\* posted, the PR's merge_sha and build_res stay, and buildbot_slots changes
\* only if process_queue goes on to start the build of another PR.
C15_ConflictSetsError ==
    [][LET l == last' IN
       l.op = "process_queue" =>
         \A i \in StartsOf(l, "False") :
           LET k == <<l.fx.starts[i].repo, l.fx.starts[i].num>>
               e == states[k[1]][k[2]]
               e2 == states'[k[1]][k[2]]
           IN /\ e2.status = "error"
              /\ db_pull'[k].status = "error"
              /\ HasCheck(l, k, "error")
              /\ HasComment(l, k, "lock")
              /\ e2.merge_sha = e.merge_sha
              /\ e2.build_res = e.build_res
              /\ \/ buildbot_slots' = buildbot_slots
                 \/ \E j \in StartsOf(l, "True") :
                      /\ j > i
                      /\ <<l.fx.starts[j].repo, l.fx.starts[j].num>> # k
                      /\ buildbot_slots' =
                           states'[l.fx.starts[j].repo][l.fx.starts[j].num].merge_sha
      ]_vars

\* C15's case: the merge of a PR that had been built before was answered
\* 409.
C15_Witness ==
    /\ last.op = "process_queue"
    /\ \E i \in StartsOf(last, "False") :
         LET e == states[last.fx.starts[i].repo][last.fx.starts[i].num] IN
         /\ e.status = "error"
         /\ e.merge_sha # <<>>
         /\ DOMAIN e.build_res # {}

\* process_queue has nothing to do but for the PR k
OnlyWork(k) ==
    \A k2 \in Held \ {k} :
      LET e == Pr(k2) IN
      /\ ~(e.status = "" /\ (e.approved_by # <<>> \/ e.try_))
      /\ ~(e.status = "success" /\ e.try_ /\ e.approved_by # <<>>)
      /\ ~(k2[1] = k[1] /\ e.status = "pending" /\ ~e.try_)

C17_TryMergeShaNotPersisted ==
    \A k \in Held :
      (Pr(k).try_ /\ Pr(k).status = "pending" /\ Pr(k).merge_sha # <<>>)
        => (k \in DOMAIN db_pull => db_pull[k].merge_sha # Pr(k).merge_sha)

\* C18: but for the start of the process, a PR held in states stays in
\* states and stays the same object.
C18_StatesOnlyExtended ==
    [][last'.op # "recover" =>
         \A k \in Held :
           /\ k[2] \in DOMAIN states'[k[1]]
           /\ states'[k[1]][k[2]].oid = Pr(k).oid
      ]_vars

\* C19: every login of a session-CI session in an operation is followed by
\* its logout.
C19_SessionReleased ==
    \A i \in 1..Len(last.fx.ci) :
      last.fx.ci[i] = "login" =>
        \E j \in (i + 1)..Len(last.fx.ci) : last.fx.ci[j] = "logout"

\* C20: start_build for a PR of a repository without session-CI merges and
\* makes the PR 'pending' whenever it returns True, also while
\* buildbot_slots is occupied.
C20_SlotGatesOnlySessionCI ==
    [][LET l == last' IN
       l.op = "process_queue" =>
         \A i \in StartsOf(l, "True") :
           repo_cfgs[l.fx.starts[i].repo] # "buildbot"
             => states'[l.fx.starts[i].repo][l.fx.starts[i].num].status = "pending"
      ]_vars

----------------------------------------------------------------------------
(* The queue and the build slot.                                           *)

\* the operation l made the PR k a landing build under way: its status
\* changed to 'pending' and its try_ is false afterwards
LandingStarted(k) ==
    /\ Pr(k).status # "pending"
    /\ states'[k[1]][k[2]].status = "pending"
    /\ ~states'[k[1]][k[2]].try_

\* C21: a process_queue invoked while a PR of a repository has status
\* 'pending' and try_ false starts no landing build for another PR of that
\* repository.
C21_NothingJumpsLandingBuild ==
    [][last'.op = "process_queue" =>
         \A k \in Held : \A k2 \in Held \ {k} :
           (k2[1] = k[1] /\ Pr(k).status = "pending" /\ ~Pr(k).try_)
             => ~LandingStarted(k2)
      ]_vars

\* C22: one iteration of the prober's loop takes the item at the head of
\* its queue and puts nothing on the queue, whether the probe answers or
\* raises; the prober running, the queue is empty again and again, and stays
\* empty once nothing else puts items on it.
C22_ProbeQueueDrains ==
    /\ [][last'.op = "fetch_mergeability" =>
            /\ mergeable_que # <<>>
            /\ mergeable_que' = Tail(mergeable_que)
            /\ last'.repo = Head(mergeable_que).repo
            /\ last'.num = Head(mergeable_que).num
         ]_vars
    /\ []<>(mergeable_que = <<>>)
    /\ <>[](mergeable_que = <<>>)

\* C22's case: a probe that raised and a probe that answered unknown each
\* took the last item off the queue.
C22_Witness ==
    /\ last.op = "fetch_mergeability"
    /\ last.args.ans1 \in {"raise", "None"}
    /\ last.args.ans2 = "None"
    /\ mergeable_que = <<>>
    /\ Held # {}

\* C23: when the platform's first answer for mergeable is unknown and its
\* answer after the prober's sleep is a boolean, that boolean is what the
\* prober stores for the PR, in memory and in the mergeable table.
C23_SecondAnswerRecorded ==
    [][(/\ last'.op = "fetch_mergeability"
        /\ last'.args.ans1 = "None"
        /\ last'.args.ans2 \in {"True", "False"}) =>
         LET item == Head(mergeable_que)
             k == <<item.repo, item.num>>
         IN (k \in Held /\ Pr(k).oid = item.oid) =>
              /\ states'[k[1]][k[2]].mergeable = last'.args.ans2
              /\ k \in DOMAIN db_mergeable'
              /\ db_mergeable'[k] = last'.args.ans2
      ]_vars

\* C24: a PR held in states whose status is 'pending' has a merge_sha.
C24_PendingHasMergeSha ==
    \A k \in Held : Pr(k).status = "pending" => Pr(k).merge_sha # <<>>

\* C25: process_queue makes no PR of a session-CI repository 'pending'
\* while buildbot_slots holds the merge_sha of another PR.
C25_OneSessionBuild ==
    [][last'.op = "process_queue" =>
         \A k \in Held :
           (/\ repo_cfgs[k[1]] = "buildbot"
            /\ Pr(k).status # "pending"
            /\ states'[k[1]][k[2]].status = "pending")
             => ~(\E k2 \in Held \ {k} :
                    buildbot_slots # <<>> /\ Pr(k2).merge_sha = buildbot_slots)
      ]_vars

\* C26: when process_queue returns, every PR whose try_ it cleared (status
\* 'success', try_ true, approved when it was invoked) has status 'pending',
\* or 'error' after a merge conflict.
C26_PromotedTryIsBuilt ==
    [][(last'.op = "process_queue" /\ ~last'.fx.exc) =>
         \A k \in Held :
           (/\ Pr(k).status = "success" /\ Pr(k).try_ /\ Pr(k).approved_by # <<>>
            /\ ~states'[k[1]][k[2]].try_)
             => states'[k[1]][k[2]].status \in {"pending", "error"}
      ]_vars

====
